---- MODULE Spec2Model ----
(***************************************************************************)
(* verification/verify_dashboard.py: verify_app() drives a headless        *)
(* browser through launch, new_page, a fixed sleep, goto, wait_for_selector,*)
(* title, screenshot, with one `except Exception` handler and a `finally`   *)
(* that closes the browser.  One action per statement of verify_app; the    *)
(* script is invoked up to MaxRuns times in sequence against one            *)
(* verification/ directory.                                                 *)
(*                                                                          *)
(* Environment.  The Playwright calls are external: each either completes   *)
(* or raises an Exception.  page.screenshot(path=...) writes a file and     *)
(* gives no atomicity guarantee, so a failing call may raise before the     *)
(* file is touched or after it has been (partly) written.  print and        *)
(* time.sleep(10) are taken to complete, browser.close() to complete, and   *)
(* asynchronous signals (KeyboardInterrupt) are outside the model.          *)
(***************************************************************************)
EXTENDS Naturals, Sequences, FiniteSets

VARIABLES
  pc,         \* position in verify_app: the statement about to run
  run,        \* number of invocations of the script so far
  app,        \* the application under test during this run
  playwright, \* the sync_playwright() context: "off", "on", "stopped"
  browser,    \* the handle of line 7: "none", "open", "closed"
  page,       \* the page of line 8: "none", "open"
  elapsed,    \* milliseconds spent inside wait_for_selector
  title,      \* local variable title (line 22)
  exc,        \* the exception being handled or propagating
  result,     \* how verify_app was left: "none", "returned", "raised"
  log,        \* console output of this run, one entry per print
  fs,         \* the files of verification/
  steps,      \* history: the calls performed in this run, in order
  raised,     \* history: <<statement, message>> of every raise in this run
  wrote,      \* history: which screenshot calls of this run wrote their file
  fs0,        \* history: fs when this run started
  prev        \* history: summary of the previous run

vars == <<pc, run, app, playwright, browser, page, elapsed, title, exc, result,
          log, fs, steps, raised, wrote, fs0, prev>>

----------------------------------------------------------------------------
(* Bounds *)

MaxRuns == 2

PollMs == 10000

----------------------------------------------------------------------------
(* Constants of the script *)

TargetUrl == "http://localhost:3000"

SelectorTimeout == 30000

(* Mutant: the success screenshot goes to the error path. *)
SuccessPathWrong == "verification/error.png"

SuccessPath == "verification/dashboard.png"

(* Mutant: the error screenshot gets a name of its own in each run. *)
ErrorPathPerRun ==
  IF run <= 1 THEN "verification/error.png" ELSE "verification/error-2.png"

ErrorPath == "verification/error.png"

(* Messages of the exceptions the automation layer raises. *)
LaunchFailed == "Executable doesn't exist"

TargetClosed == "Target page, context or browser has been closed"

ConnRefused == "net::ERR_CONNECTION_REFUSED"

TimeoutExceeded == "Timeout 30000ms exceeded"

WriteFailed == "[Errno 5] Input/output error"

Titles == {"", "Finance Manager"}

Apps == {"down", "up_no_h1", "up_h1"}

NoExc == [st |-> "none", msg |-> ""]

NoPrev == [run |-> 0, wrote |-> {}, names |-> {}]

----------------------------------------------------------------------------
(* Control structure of verify_app *)

TryBlock == {"goto", "wait", "poll", "title", "shot"}

HandlerBlock == {"except", "err_shot"}

(* Mutant: the finally clause does not cover the handler. *)
OnRaiseHandlerSkipsFinally(p) ==
  IF p \in TryBlock THEN "except" ELSE "with_exit"

(* Where control goes when the statement at p raises an Exception: into    *)
(* the handler from the try block, to the finally clause from the handler,  *)
(* and straight out of the with block from lines 7-12.                      *)
OnRaise(p) ==
  IF p \in TryBlock THEN "except"
  ELSE IF p \in HandlerBlock THEN "finally"
  ELSE "with_exit"

(* Mutant: navigation starts right after new_page, then the delay. *)
SuccSleepAfterGoto(p) ==
  CASE p = "launch"    -> "new_page"
    [] p = "new_page"  -> "goto"
    [] p = "goto"      -> IF Len(steps) <= 3 THEN "sleep" ELSE "wait"
    [] p = "sleep"     -> "goto"
    [] p = "wait"      -> "poll"
    [] p = "poll"      -> "title"
    [] p = "title"     -> "shot"
    [] p = "shot"      -> "finally"
    [] p = "except"    -> "err_shot"
    [] p = "err_shot"  -> "finally"
    [] p = "finally"   -> "with_exit"
    [] p = "with_exit" -> "done"

(* The statement that follows p when p completes. *)
Succ(p) ==
  CASE p = "launch"    -> "new_page"
    [] p = "new_page"  -> "sleep"
    [] p = "sleep"     -> "goto"
    [] p = "goto"      -> "wait"
    [] p = "wait"      -> "poll"
    [] p = "poll"      -> "title"
    [] p = "title"     -> "shot"
    [] p = "shot"      -> "finally"
    [] p = "except"    -> "err_shot"
    [] p = "err_shot"  -> "finally"
    [] p = "finally"   -> "with_exit"
    [] p = "with_exit" -> "done"

(* Mutant: the wait is called without an effective timeout. *)
WaitNeverExpires(ms) == FALSE

(* wait_for_selector(..., timeout=30000): the wait gives up once the        *)
(* timeout has elapsed (a timeout of 0 disables it).                        *)
WaitExpired(ms) == SelectorTimeout # 0 /\ ms >= SelectorTimeout

(* Console lines *)
Line(text, arg) == <<text, arg>>

(* Mutant: the handler logs a fixed text instead of the exception. *)
ErrorLineFixedText(m) == Line("Error: ", "verification failed")

ErrorLine(m) == Line("Error: ", m)

(* Files: one record per existing file. *)
Names(files) == {f.path : f \in files}

WriteFile(files, path, whole) ==
  {f \in files : f.path # path} \cup {[path |-> path, by |-> run, whole |-> whole]}

----------------------------------------------------------------------------
Init ==
  /\ pc = "idle"
  /\ run = 0
  /\ app = "down"
  /\ playwright = "off"
  /\ browser = "none"
  /\ page = "none"
  /\ elapsed = 0
  /\ title = ""
  /\ exc = NoExc
  /\ result = "none"
  /\ log = <<>>
  /\ fs = {}
  /\ steps = <<>>
  /\ raised = <<>>
  /\ wrote = {}
  /\ fs0 = {}
  /\ prev = NoPrev

(* The statement at pc raises an Exception with message m. *)
Raise(m) ==
  /\ pc' = OnRaise(pc)
  /\ exc' = [st |-> IF OnRaise(pc) = "except" THEN "caught" ELSE "escaping",
             msg |-> m]
  /\ raised' = Append(raised, <<pc, m>>)

(* The statement at pc completes. *)
Complete ==
  /\ pc' = Succ(pc)
  /\ UNCHANGED <<exc, raised>>

(* Lines 37-38 and 6: the script is run; sync_playwright() is entered. *)
Start ==
  /\ pc \in {"idle", "done"}
  /\ run < MaxRuns
  /\ run' = run + 1
  /\ app' \in Apps
  /\ pc' = "launch"
  /\ playwright' = "on"
  /\ browser' = "none"
  /\ page' = "none"
  /\ elapsed' = 0
  /\ title' = ""
  /\ exc' = NoExc
  /\ result' = "none"
  /\ log' = <<>>
  /\ steps' = <<>>
  /\ raised' = <<>>
  /\ wrote' = {}
  /\ fs0' = fs
  /\ prev' = IF run = 0 THEN NoPrev
             ELSE [run |-> run, wrote |-> wrote, names |-> Names(fs)]
  /\ UNCHANGED fs

(* Line 7: browser = p.chromium.launch(headless=True) *)
Launch ==
  /\ pc = "launch"
  /\ steps' = Append(steps, "launch")
  /\ \/ Complete /\ browser' = "open"
     \/ Raise(LaunchFailed) /\ UNCHANGED browser
  /\ UNCHANGED <<run, app, playwright, page, elapsed, title, result, log, fs,
                 wrote, fs0, prev>>

(* Line 8: page = browser.new_page() *)
NewPage ==
  /\ pc = "new_page"
  /\ steps' = Append(steps, "new_page")
  /\ \/ Complete /\ page' = "open"
     \/ Raise(TargetClosed) /\ UNCHANGED page
  /\ UNCHANGED <<run, app, playwright, browser, elapsed, title, result, log, fs,
                 wrote, fs0, prev>>

(* Lines 11-12: print(...); time.sleep(10) *)
Sleep ==
  /\ pc = "sleep"
  /\ steps' = Append(steps, "sleep")
  /\ log' = Append(log, Line("Waiting for app to start...", ""))
  /\ Complete
  /\ UNCHANGED <<run, app, playwright, browser, page, elapsed, title, result, fs,
                 wrote, fs0, prev>>

(* Lines 15-16: print(...); page.goto("http://localhost:3000") *)
Goto ==
  /\ pc = "goto"
  /\ steps' = Append(steps, "goto")
  /\ log' = Append(log, Line("Navigating to ", TargetUrl))
  /\ \/ app # "down" /\ Complete
     \/ app = "down" /\ Raise(ConnRefused)
     \/ Raise(TargetClosed)
  /\ UNCHANGED <<run, app, playwright, browser, page, elapsed, title, result, fs,
                 wrote, fs0, prev>>

(* Lines 18-19: print(...); page.wait_for_selector("h1", timeout=30000) is  *)
(* called and starts polling.                                               *)
WaitBegin ==
  /\ pc = "wait"
  /\ steps' = Append(steps, "wait")
  /\ log' = Append(log, Line("Waiting for dashboard...", ""))
  /\ elapsed' = 0
  /\ Complete
  /\ UNCHANGED <<run, app, playwright, browser, page, title, result, fs,
                 wrote, fs0, prev>>

(* Line 19, inside wait_for_selector: the element is there, or PollMs more  *)
(* pass, or the timeout has elapsed and the call raises.                    *)
WaitPoll ==
  /\ pc = "poll"
  /\ \/ /\ ~WaitExpired(elapsed)
        /\ app = "up_h1"
        /\ Complete
        /\ UNCHANGED elapsed
     \/ /\ ~WaitExpired(elapsed)
        \* the counter stops growing once it is past the timeout
        /\ elapsed' = IF elapsed < SelectorTimeout THEN elapsed + PollMs ELSE elapsed
        /\ UNCHANGED <<pc, exc, raised>>
     \/ /\ WaitExpired(elapsed)
        /\ Raise(TimeoutExceeded)
        /\ UNCHANGED elapsed
     \/ /\ ~WaitExpired(elapsed)
        /\ Raise(TargetClosed)
        /\ UNCHANGED elapsed
  /\ UNCHANGED <<run, app, playwright, browser, page, title, result, log, fs,
                 steps, wrote, fs0, prev>>

(* Lines 22-23: title = page.title(); print(f"Page title: {title}") *)
Title ==
  /\ pc = "title"
  /\ steps' = Append(steps, "title")
  /\ \/ \E t \in Titles :
          /\ title' = t
          /\ log' = Append(log, Line("Page title: ", t))
          /\ Complete
     \/ Raise(TargetClosed) /\ UNCHANGED <<title, log>>
  /\ UNCHANGED <<run, app, playwright, browser, page, elapsed, result, fs,
                 wrote, fs0, prev>>

(* Lines 26-28: page.screenshot(path="verification/dashboard.png"); print *)
Screenshot ==
  /\ pc = "shot"
  /\ steps' = Append(steps, "screenshot")
  /\ \/ /\ fs' = WriteFile(fs, SuccessPath, TRUE)
        /\ wrote' = wrote \cup {"success"}
        /\ log' = Append(log, Line("Screenshot saved to ", SuccessPath))
        /\ Complete
     \/ /\ Raise(TargetClosed)
        /\ UNCHANGED <<fs, wrote, log>>
     \/ /\ fs' = WriteFile(fs, SuccessPath, FALSE)
        /\ wrote' = wrote \cup {"success"}
        /\ Raise(WriteFailed)
        /\ UNCHANGED log
  /\ UNCHANGED <<run, app, playwright, browser, page, elapsed, title, result,
                 fs0, prev>>

(* Lines 30-31: except Exception as e: print(f"Error: {e}") *)
Except ==
  /\ pc = "except"
  /\ exc.st = "caught"
  /\ steps' = Append(steps, "log_error")
  /\ log' = Append(log, ErrorLine(exc.msg))
  /\ Complete
  /\ UNCHANGED <<run, app, playwright, browser, page, elapsed, title, result, fs,
                 wrote, fs0, prev>>

(* Line 33: page.screenshot(path="verification/error.png"), in the handler *)
ErrorScreenshot ==
  /\ pc = "err_shot"
  /\ steps' = Append(steps, "error_screenshot")
  /\ \/ /\ fs' = WriteFile(fs, ErrorPath, TRUE)
        /\ wrote' = wrote \cup {"error"}
        /\ pc' = Succ(pc)
        /\ exc' = NoExc
        /\ UNCHANGED raised
     \/ /\ Raise(TargetClosed)
        /\ UNCHANGED <<fs, wrote>>
     \/ /\ fs' = WriteFile(fs, ErrorPath, FALSE)
        /\ wrote' = wrote \cup {"error"}
        /\ Raise(WriteFailed)
  /\ UNCHANGED <<run, app, playwright, browser, page, elapsed, title, result, log,
                 fs0, prev>>

(* Lines 34-35: finally: browser.close() *)
Finally ==
  /\ pc = "finally"
  /\ steps' = Append(steps, "close")
  /\ browser' = "closed"
  /\ page' = "none"
  /\ Complete
  /\ UNCHANGED <<run, app, playwright, elapsed, title, result, log, fs,
                 wrote, fs0, prev>>

(* Line 6, leaving the with block: the Playwright context is stopped and    *)
(* verify_app returns, or the propagating exception leaves it.              *)
WithExit ==
  /\ pc = "with_exit"
  /\ playwright' = "stopped"
  /\ result' = IF exc.st = "escaping" THEN "raised" ELSE "returned"
  /\ Complete
  /\ UNCHANGED <<run, app, browser, page, elapsed, title, log, fs, steps,
                 wrote, fs0, prev>>

(* One statement of a run in progress. *)
Step ==
  \/ Launch
  \/ NewPage
  \/ Sleep
  \/ Goto
  \/ WaitBegin
  \/ WaitPoll
  \/ Title
  \/ Screenshot
  \/ Except
  \/ ErrorScreenshot
  \/ Finally
  \/ WithExit

Next == Start \/ Step

Spec == Init /\ [][Next]_vars

(* The interpreter keeps executing a started run; when the script is run    *)
(* again is up to the operator.                                             *)
FairSpec == Spec /\ WF_vars(Step)

----------------------------------------------------------------------------
(* Vocabulary of the properties *)

Finished == pc = "done"

Did(s) == \E i \in DOMAIN steps : steps[i] = s

Count(s) == Cardinality({i \in DOMAIN steps : steps[i] = s})

RaisedIn(S) == \E i \in DOMAIN raised : raised[i][1] \in S

ErrorLines == {i \in DOMAIN log : log[i][1] = "Error: "}

FileAt(files, path) == {f \in files : f.path = path}

(* The calls of the success path, in program order. *)
Order == <<"launch", "new_page", "sleep", "goto", "wait", "title", "screenshot">>

Rank(s) ==
  CASE s = "launch" -> 1
    [] s = "new_page" -> 2
    [] s = "sleep" -> 3
    [] s = "goto" -> 4
    [] s = "wait" -> 5
    [] s = "title" -> 6
    [] s = "screenshot" -> 7
    [] s = "log_error" -> 8
    [] s = "error_screenshot" -> 9
    [] s = "close" -> 10

(* The call made by the statement at position p. *)
CallAt(p) ==
  CASE p = "goto" -> "goto"
    [] p = "poll" -> "wait"
    [] p = "title" -> "title"
    [] p = "shot" -> "screenshot"

----------------------------------------------------------------------------
(* C1: on every exit path of verify_app the browser obtained by launch has *)
(* been closed (browser.close performed) before verify_app is left; no run  *)
(* ends with the browser launched and not closed.                           *)
C1_BrowserClosedOnEveryExit ==
  result # "none" => (browser # "open" /\ (browser = "closed" => Count("close") = 1))

(* C2: verify_app never lets an exception escape: whenever navigation, the  *)
(* element wait, the title read or the screenshot capture fails, the        *)
(* failure is caught and verify_app returns normally.                       *)
C2_NoExceptionEscapes ==
  (Finished /\ RaisedIn(TryBlock)) => result = "returned"

(* C3: when navigation succeeds, the h1 appears within the timeout and      *)
(* neither the title read nor the screenshot fails, the run writes          *)
(* verification/dashboard.png, logs the page title and the                  *)
(* 'Screenshot saved' line, does not write verification/error.png and logs  *)
(* no 'Error:' line.                                                        *)
C3_SuccessRun ==
  (Finished /\ Did("goto") /\ ~RaisedIn(TryBlock)) =>
    /\ [path |-> "verification/dashboard.png", by |-> run, whole |-> TRUE] \in fs
    /\ \E i \in DOMAIN log : log[i] = <<"Page title: ", title>>
    /\ \E i \in DOMAIN log :
         log[i] = <<"Screenshot saved to ", "verification/dashboard.png">>
    /\ FileAt(fs, "verification/error.png") = FileAt(fs0, "verification/error.png")
    /\ wrote = {"success"}
    /\ ErrorLines = {}
    /\ result = "returned"

C3_Witness ==
  /\ Finished /\ Did("goto") /\ ~RaisedIn(TryBlock)
  /\ title = "Finance Manager"
  /\ elapsed > 0
  /\ FileAt(fs, "verification/dashboard.png") # {}

C6_AtMostOneFilePerRun ==
  ~(/\ \E f \in fs : f.path = "verification/dashboard.png" /\ f.by = run
    /\ \E f \in fs : f.path = "verification/error.png" /\ f.by = run)

(* C7: the calls of a run occur in the fixed order launch, new_page, sleep, *)
(* goto, wait, title, screenshot, close, with log_error and                 *)
(* error_screenshot as the only branch; each is performed at most once;     *)
(* goto never precedes the end of the startup delay; no page operation      *)
(* happens after the browser is closed.                                     *)
C7_FixedOrder ==
  /\ \A i, j \in DOMAIN steps : i < j => Rank(steps[i]) < Rank(steps[j])
  /\ \A i \in DOMAIN steps : Rank(steps[i]) <= 7 => (i <= 7 /\ steps[i] = Order[i])
  /\ Did("goto") =>
       \E i, j \in DOMAIN steps : i < j /\ steps[i] = "sleep" /\ steps[j] = "goto"
  /\ Did("log_error") => RaisedIn(TryBlock)
  /\ Did("error_screenshot") => Did("log_error")
  /\ pc \in (TryBlock \cup HandlerBlock) => (browser = "open" /\ page = "open")
  /\ Did("close") => (steps[Len(steps)] = "close" /\ browser = "closed")

C7_Witness ==
  /\ Finished
  /\ steps = <<"launch", "new_page", "sleep", "goto", "wait",
               "log_error", "error_screenshot", "close">>

(* C8: running the script again with the same outcome leaves the same set   *)
(* of screenshot files: the second run overwrites the file at the same      *)
(* fixed path and never creates an additional or differently named file.    *)
C8_RerunOverwrites ==
  /\ Names(fs) \subseteq {"verification/dashboard.png", "verification/error.png"}
  /\ \A f, g \in fs : f.path = g.path => f = g
  /\ (Finished /\ prev.run >= 1 /\ wrote = prev.wrote) =>
       /\ Names(fs) = prev.names
       /\ "success" \in wrote =>
            \A f \in FileAt(fs, "verification/dashboard.png") : f.by = run
       /\ "error" \in wrote =>
            \A f \in FileAt(fs, "verification/error.png") : f.by = run

C8_Witness ==
  /\ Finished
  /\ prev.run >= 1
  /\ wrote = prev.wrote
  /\ wrote = {"error"}
  /\ \E f \in fs0 : f.path = "verification/error.png" /\ f.by = prev.run
  /\ \E f \in fs : f.path = "verification/error.png" /\ f.by = run

(* C9: when the error-path screenshot raises inside the handler, that       *)
(* failure is not caught: browser.close still runs exactly once, only then  *)
(* does the exception leave verify_app, and no further screenshot or log    *)
(* step is made.                                                            *)
C9_HandlerFailurePropagates ==
  RaisedIn({"err_shot"}) =>
    /\ pc \in {"finally", "with_exit", "done"}
    /\ exc = [st |-> "escaping", msg |-> raised[Len(raised)][2]]
    /\ (result = "raised") <=> Finished
    /\ result # "returned"
    /\ pc \in {"with_exit", "done"} =>
         /\ Count("close") = 1
         /\ browser = "closed"
         /\ steps[Len(steps)] = "close"
         /\ steps[Len(steps) - 1] = "error_screenshot"
    /\ Count("error_screenshot") = 1
    /\ Cardinality(ErrorLines) = 1
    /\ log[Len(log)][1] = "Error: "

C9_Witness ==
  /\ Finished
  /\ RaisedIn({"err_shot"})
  /\ result = "raised"
  /\ browser = "closed"

(* C10: a run writes no file other than the one selected by its outcome and *)
(* deletes none: a failing run leaves an existing                           *)
(* verification/dashboard.png unchanged and a successful run leaves an      *)
(* existing verification/error.png unchanged.                               *)
C10_OnlySelectedFileTouched ==
  Finished =>
    /\ Names(fs0) \subseteq Names(fs)
    /\ raised # <<>> =>
         FileAt(fs, "verification/dashboard.png") = FileAt(fs0, "verification/dashboard.png")
    /\ raised = <<>> =>
         FileAt(fs, "verification/error.png") = FileAt(fs0, "verification/error.png")

====
